---- MODULE Spec2Model ----
(***************************************************************************)
(* Model of the time-graph widget of bottom                                *)
(* (src/app/widgets/base/time_graph.rs): the AutohideTimer state machine,  *)
(* the zoom operations of TimeGraph, its key / mouse handlers and the      *)
(* x-axis that draw_tui_chart hands to the chart; and of the projections   *)
(* of src/data_conversion.rs: the memory, swap, network and CPU series     *)
(* built from the history of a DataCollection, and the byte-count strings. *)
(*                                                                         *)
(* u64 is modelled as the integers modulo 2^Width.  Instant is a point of  *)
(* a discrete monotonic clock, Duration a number of its ticks.             *)
(***************************************************************************)
EXTENDS Integers, Sequences, FiniteSets, TLC

\* ------------------------------------------------------------------ bounds
\* Width of the machine word that stands for u64.
Width == 12
\* Last value of the monotonic clock.
MaxTime == 2
\* Largest show_duration an Enabled timer is built with.
MaxShowDuration == 1
\* Longest history (entries of timed_data_vec) a projection is given.
MaxEntries == 3
\* Last instant, in clock ticks, an entry of a history is stamped with.
MaxInstant == 4
\* Longest history a pass of the CPU projection is given.
MaxCpuEntries == 2
\* Largest number of cores an entry of a history reads.
MaxCores == 2
\* How far around each limit the byte counts handed to the string functions lie.
MaxOffset == 4

Modulus == 2 ^ Width
U64Max == Modulus - 1

\* The values new() is called with: zero, the quarters of the word and
\* u64::MAX, so that saturation, clamping and wrap-around all occur.
Quarter == Modulus \div 4
TimeValues == {0, Quarter, 2 * Quarter, U64Max}
IntervalValues == {0, Quarter, 2 * Quarter}

\* ---------------------------------------------------------------- constants
\* constants::TIME_LABEL_HEIGHT_LIMIT
TIME_LABEL_HEIGHT_LIMIT == 7

\* ------------------------------------------------------------------- state
VARIABLES
    time_graph,     \* the TimeGraph struct
    now,            \* Instant::now()
    event,          \* the call that produced this state
    called,         \* the zoom function the handler dispatched to
    result,         \* its ComponentEventResult
    showing,        \* <<b>> when is_showing() returned b in this call, else <<>>
    x_axis,         \* the x axis draw_tui_chart built in this call
    last_start,     \* the clock at the last start_display_timer() call
    prev,           \* called and result of the call before
    data_collection, \* the DataCollection the last projection was given
    converted_cpu_data, \* ConvertedData::cpu_data, kept between passes
    converted,      \* the projection that produced this state and its output
    formatted       \* the string function called in this state and its output

vars == <<time_graph, now, event, called, result, showing, x_axis, last_start, prev,
          data_collection, converted_cpu_data, converted, formatted>>

\* ------------------------------------------------------------ AutohideTimer
Hidden == [tag |-> "Hidden", instant |-> 0]
Running(instant) == [tag |-> "Running", instant |-> instant]

AlwaysShow == [variant |-> "AlwaysShow", state |-> Hidden, show_duration |-> 0]
AlwaysHide == [variant |-> "AlwaysHide", state |-> Hidden, show_duration |-> 0]
Enabled(state, show_duration) ==
    [variant |-> "Enabled", state |-> state, show_duration |-> show_duration]

\* Instant::elapsed at clock t
elapsed(instant, t) == IF t >= instant THEN t - instant ELSE 0

\* start_display_timer that re-arms whatever the variant is
start_display_timer_any(self, t) ==
    Enabled(Running(t), self.show_duration)

start_display_timer(self, t) ==
    IF self.variant \in {"AlwaysShow", "AlwaysHide"}
    THEN self
    ELSE [self EXCEPT !.state = Running(t)]

\* update_display_timer that hides as soon as show_duration is reached
update_display_timer_ge(self, t) ==
    IF self.variant \in {"AlwaysShow", "AlwaysHide"}
    THEN self
    ELSE IF self.state.tag = "Hidden"
         THEN self
         ELSE IF elapsed(self.state.instant, t) >= self.show_duration
              THEN [self EXCEPT !.state = Hidden]
              ELSE self

update_display_timer(self, t) ==
    IF self.variant \in {"AlwaysShow", "AlwaysHide"}
    THEN self
    ELSE IF self.state.tag = "Hidden"
         THEN self
         ELSE IF elapsed(self.state.instant, t) > self.show_duration
              THEN [self EXCEPT !.state = Hidden]
              ELSE self

\* is_showing: the timer after the call and the value returned
is_showing(self, t) ==
    LET updated == update_display_timer(self, t)
    IN  [timer |-> updated,
         value |-> CASE updated.variant = "AlwaysShow" -> TRUE
                     [] updated.variant = "AlwaysHide" -> FALSE
                     [] OTHER -> updated.state.tag = "Running"]

\* ---------------------------------------------------------------- TimeGraph
new(start_value, autohide_timer, min_duration, max_duration, time_interval) ==
    [current_display_time |-> start_value,
     autohide_timer       |-> autohide_timer,
     default_time_value   |-> start_value,
     min_duration         |-> min_duration,
     max_duration         |-> max_duration,
     time_interval        |-> time_interval]

saturating_sub(a, b) == IF a >= b THEN a - b ELSE 0

\* A zoom function returns the struct after the call, the result, and whether
\* it called start_display_timer.
Outcome(self, res, armed) == [self |-> self, result |-> res, armed |-> armed]

\* zoom_in that arms the timer before it finds there is nothing to do
zoom_in_arming(self, t) ==
    LET new_time == saturating_sub(self.current_display_time, self.time_interval)
        armed    == [self EXCEPT !.autohide_timer = start_display_timer(@, t)]
    IN  IF self.current_display_time = new_time
        THEN Outcome(armed, "NoRedraw", TRUE)
        ELSE IF new_time >= self.min_duration
        THEN Outcome([armed EXCEPT !.current_display_time = new_time], "Redraw", TRUE)
        ELSE IF new_time # self.min_duration
        THEN Outcome([armed EXCEPT !.current_display_time = self.min_duration],
                     "Redraw", TRUE)
        ELSE Outcome(armed, "NoRedraw", TRUE)

zoom_in(self, t) ==
    LET new_time == saturating_sub(self.current_display_time, self.time_interval)
    IN  IF self.current_display_time = new_time
        THEN Outcome(self, "NoRedraw", FALSE)
        ELSE IF new_time >= self.min_duration
        THEN Outcome([self EXCEPT !.current_display_time = new_time,
                                  !.autohide_timer = start_display_timer(@, t)],
                     "Redraw", TRUE)
        ELSE IF new_time # self.min_duration
        THEN Outcome([self EXCEPT !.current_display_time = self.min_duration,
                                  !.autohide_timer = start_display_timer(@, t)],
                     "Redraw", TRUE)
        ELSE Outcome(self, "NoRedraw", FALSE)

\* zoom_out that commits the new time without arming the timer
zoom_out_unarmed(self, t, overflow_checks) ==
    LET sum      == self.current_display_time + self.time_interval
        new_time == sum % Modulus
    IN  IF sum > U64Max /\ overflow_checks
        THEN Outcome(self, "Panic", FALSE)
        ELSE IF self.current_display_time = new_time
        THEN Outcome(self, "NoRedraw", FALSE)
        ELSE IF new_time <= self.max_duration
        THEN Outcome([self EXCEPT !.current_display_time = new_time],
                     "Redraw", FALSE)
        ELSE IF new_time # self.max_duration
        THEN Outcome([self EXCEPT !.current_display_time = self.max_duration,
                                  !.autohide_timer = start_display_timer(@, t)],
                     "Redraw", TRUE)
        ELSE Outcome(self, "NoRedraw", FALSE)

\* u64 `+`: with overflow checks (debug profile) an overflow panics, without
\* them (release profile) the sum wraps.
zoom_out(self, t, overflow_checks) ==
    LET sum      == self.current_display_time + self.time_interval
        new_time == sum % Modulus
    IN  IF sum > U64Max /\ overflow_checks
        THEN Outcome(self, "Panic", FALSE)
        ELSE IF self.current_display_time = new_time
        THEN Outcome(self, "NoRedraw", FALSE)
        ELSE IF new_time <= self.max_duration
        THEN Outcome([self EXCEPT !.current_display_time = new_time,
                                  !.autohide_timer = start_display_timer(@, t)],
                     "Redraw", TRUE)
        ELSE IF new_time # self.max_duration
        THEN Outcome([self EXCEPT !.current_display_time = self.max_duration,
                                  !.autohide_timer = start_display_timer(@, t)],
                     "Redraw", TRUE)
        ELSE Outcome(self, "NoRedraw", FALSE)

\* reset_zoom without the test for being at the default already
reset_zoom_unconditional(self, t) ==
    Outcome([self EXCEPT !.current_display_time = self.default_time_value,
                         !.autohide_timer = start_display_timer(@, t)],
            "Redraw", TRUE)

reset_zoom(self, t) ==
    IF self.current_display_time = self.default_time_value
    THEN Outcome(self, "NoRedraw", FALSE)
    ELSE Outcome([self EXCEPT !.current_display_time = self.default_time_value,
                              !.autohide_timer = start_display_timer(@, t)],
                 "Redraw", TRUE)

\* handle_char with the arms of '-' and '+' exchanged
handle_char_swapped(c) ==
    CASE c = "-" -> "zoom_in"
      [] c = "+" -> "zoom_out"
      [] c = "=" -> "reset_zoom"
      [] OTHER   -> "none"

\* handle_char: the function dispatched to ("none" for the wildcard arm)
handle_char(c) ==
    CASE c = "-" -> "zoom_out"
      [] c = "+" -> "zoom_in"
      [] c = "=" -> "reset_zoom"
      [] OTHER   -> "none"

\* KeyModifiers are sets of modifier names; KeyCode is Char(c) or another key.
NONE == {}
SHIFT == {"SHIFT"}
Char(c) == [key |-> "Char", c |-> c]
OtherKey(k) == [key |-> k, c |-> ""]

handle_key_event(modifiers, code) ==
    IF modifiers = NONE \/ modifiers = SHIFT
    THEN IF code.key = "Char" THEN handle_char(code.c) ELSE "none"
    ELSE "none"

handle_mouse_event(kind) ==
    CASE kind = "ScrollDown" -> "zoom_out"
      [] kind = "ScrollUp"   -> "zoom_in"
      [] OTHER               -> "none"

\* The call a handler dispatched to, applied to the struct.
Dispatch(fn, self, t, overflow_checks) ==
    CASE fn = "zoom_in"    -> zoom_in(self, t)
      [] fn = "zoom_out"   -> zoom_out(self, t, overflow_checks)
      [] fn = "reset_zoom" -> reset_zoom(self, t)
      [] OTHER             -> Outcome(self, "Unhandled", FALSE)

get_x_axis_labels(self) ==
    <<ToString(self.current_display_time \div 1000) \o "s", "0s">>

\* draw_tui_chart that labels the axis without asking the timer
draw_tui_chart_unasked(self, t, height) ==
    [bounds |-> <<-(self.current_display_time), 0>>,
     labels |-> IF height >= TIME_LABEL_HEIGHT_LIMIT
                THEN get_x_axis_labels(self) ELSE <<>>,
     timer  |-> self.autohide_timer,
     showing |-> <<>>]

\* The x axis of draw_tui_chart: bounds, labels (<<>> when none are set),
\* the timer after the call and what is_showing returned (<<>> when the
\* height test short-circuits the call).
\* `as f64` is exact below 2^53, which every value of the model is.
draw_tui_chart(self, t, height) ==
    LET time_start == -(self.current_display_time)
        shown      == is_showing(self.autohide_timer, t)
    IN  IF height >= TIME_LABEL_HEIGHT_LIMIT
        THEN [bounds |-> <<time_start, 0>>,
              labels |-> IF shown.value THEN get_x_axis_labels(self) ELSE <<>>,
              timer  |-> shown.timer,
              showing |-> <<shown.value>>]
        ELSE [bounds |-> <<time_start, 0>>,
              labels |-> <<>>,
              timer  |-> self.autohide_timer,
              showing |-> <<>>]

\* ========================================================== data_conversion
\* The projections of src/data_conversion.rs.  A DataCollection is the record
\* [current_instant, frozen_instant, timed_data_vec, cpu_harvest]; an Option
\* is <<>> (None) or <<v>> (Some(v)); timed_data_vec is a sequence of pairs
\* <<time, TimedData>>; a Point is a pair <<x, y>>.

\* Instant counts clock ticks; a millisecond has TicksPerMilli of them, so
\* that Duration::as_millis truncates.
TicksPerMilli == 2

\* Instant::duration_since saturates at zero for a later argument.
duration_since(self, earlier) == IF self >= earlier THEN self - earlier ELSE 0

\* Duration::as_millis: whole milliseconds (`as f64` and floor() keep them)
as_millis(duration) == duration \div TicksPerMilli

\* The "now" reference of a projection: the frozen instant when there is one.
current_time_of(current_data) ==
    IF current_data.frozen_instant # <<>>
    THEN current_data.frozen_instant[1]
    ELSE current_data.current_instant

\* The loop of convert_mem_data_points from entry i on; the break sits inside
\* the `if let Some(mem_data)`.
RECURSIVE mem_data_loop(_, _, _, _)
mem_data_loop(timed_data_vec, i, current_time, res) ==
    IF i > Len(timed_data_vec) THEN res
    ELSE LET time == timed_data_vec[i][1]
             data == timed_data_vec[i][2]
         IN  IF data.mem_data # <<>>
             THEN LET time_from_start ==
                          as_millis(duration_since(current_time, time))
                      pushed ==
                          Append(res, <<0 - time_from_start, data.mem_data[1]>>)
                  IN  IF time = current_time
                      THEN pushed
                      ELSE mem_data_loop(timed_data_vec, i + 1, current_time, pushed)
             ELSE mem_data_loop(timed_data_vec, i + 1, current_time, res)

\* convert_mem_data_points that starts at the second entry
convert_mem_data_points_late(current_data) ==
    mem_data_loop(current_data.timed_data_vec, 2,
                  current_time_of(current_data), <<>>)

convert_mem_data_points(current_data) ==
    mem_data_loop(current_data.timed_data_vec, 1,
                  current_time_of(current_data), <<>>)

\* The loop of convert_swap_data_points; the break sits inside the
\* `if let Some(swap_data)`.
RECURSIVE swap_data_loop(_, _, _, _)
swap_data_loop(timed_data_vec, i, current_time, res) ==
    IF i > Len(timed_data_vec) THEN res
    ELSE LET time == timed_data_vec[i][1]
             data == timed_data_vec[i][2]
         IN  IF data.swap_data # <<>>
             THEN LET time_from_start ==
                          as_millis(duration_since(current_time, time))
                      pushed ==
                          Append(res, <<0 - time_from_start, data.swap_data[1]>>)
                  IN  IF time = current_time
                      THEN pushed
                      ELSE swap_data_loop(timed_data_vec, i + 1, current_time, pushed)
             ELSE swap_data_loop(timed_data_vec, i + 1, current_time, res)

convert_swap_data_points(current_data) ==
    swap_data_loop(current_data.timed_data_vec, 1,
                   current_time_of(current_data), <<>>)

\* An f64 computed from a raw rate x is kept as the term fn(x / div) - minus,
\* fn one of "id", "log2", "log10"; nothing is rounded.
F64Term(fn, x, div, minus) == [fn |-> fn, x |-> x, div |-> div, minus |-> minus]

\* The match of get_rx_tx_data_points on scale, prefix and unit
scaled(x, network_scale_type, network_unit_type, network_use_binary_prefix) ==
    IF network_scale_type = "Log"
    THEN IF network_use_binary_prefix
         THEN IF network_unit_type = "Byte"
              THEN F64Term("log2", x, 1, 4)
              ELSE F64Term("log2", x, 1, 0)
         ELSE IF network_unit_type = "Byte"
              THEN F64Term("log10", x, 8, 0)
              ELSE F64Term("log10", x, 1, 0)
    ELSE IF network_unit_type = "Byte"
         THEN F64Term("id", x, 8, 0)
         ELSE F64Term("id", x, 1, 0)

\* The loop of get_rx_tx_data_points; both points are pushed for every entry
\* and the break follows them.
RECURSIVE rx_tx_loop(_, _, _, _, _, _, _)
rx_tx_loop(timed_data_vec, i, current_time, res, network_scale_type, network_unit_type, network_use_binary_prefix) ==
    IF i > Len(timed_data_vec) THEN res
    ELSE LET time == timed_data_vec[i][1]
             data == timed_data_vec[i][2]
             time_from_start == as_millis(duration_since(current_time, time))
             rx_data == scaled(data.rx_data, network_scale_type,
                               network_unit_type, network_use_binary_prefix)
             tx_data == scaled(data.tx_data, network_scale_type,
                               network_unit_type, network_use_binary_prefix)
             pushed == [rx |-> Append(res.rx, <<0 - time_from_start, rx_data>>),
                        tx |-> Append(res.tx, <<0 - time_from_start, tx_data>>)]
         IN  IF time = current_time
             THEN pushed
             ELSE rx_tx_loop(timed_data_vec, i + 1, current_time, pushed,
                             network_scale_type, network_unit_type,
                             network_use_binary_prefix)

get_rx_tx_data_points(current_data, network_scale_type, network_unit_type, network_use_binary_prefix) ==
    rx_tx_loop(current_data.timed_data_vec, 1, current_time_of(current_data),
               [rx |-> <<>>, tx |-> <<>>],
               network_scale_type, network_unit_type, network_use_binary_prefix)

\* CpuWidgetData
All == [tag |-> "All"]
Entry(data_type, data, last_entry) ==
    [tag |-> "Entry", data_type |-> data_type, data |-> data,
     last_entry |-> last_entry]

\* Iterator::zip stops with the shorter side.
zip_len(a, b) == IF Len(a) <= Len(b) THEN Len(a) ELSE Len(b)

\* rebuilt_cpu_data without the All placeholder in front
rebuilt_cpu_data_headless(data, cpu_harvest) ==
    [i \in 1 .. zip_len(data.cpu_data, cpu_harvest) |->
        Entry(cpu_harvest[i].data_type, <<>>, data.cpu_data[i])]

\* The list convert_cpu_data_points builds when the core count changed.
rebuilt_cpu_data(data, cpu_harvest) ==
    <<All>> \o [i \in 1 .. zip_len(data.cpu_data, cpu_harvest) |->
                    Entry(cpu_harvest[i].data_type, <<>>, data.cpu_data[i])]

\* First step of convert_cpu_data_points whose clearing loop lacks skip(1)
reconcile_unskipped(cpu_data, current_data) ==
    IF current_data.timed_data_vec = <<>>
    THEN [cpu_data |-> cpu_data, unreachable |-> FALSE]
    ELSE LET data == current_data.timed_data_vec[Len(current_data.timed_data_vec)][2]
         IN  IF Len(data.cpu_data) + 1 # Len(cpu_data)
             THEN [cpu_data |-> rebuilt_cpu_data(data, current_data.cpu_harvest),
                   unreachable |-> FALSE]
             ELSE [cpu_data |->
                      [j \in 1 .. Len(cpu_data) |->
                          IF j > Len(data.cpu_data) \/ cpu_data[j].tag = "All"
                          THEN cpu_data[j]
                          ELSE Entry(cpu_data[j].data_type, <<>>,
                                     data.cpu_data[j])],
                   unreachable |->
                      \E j \in 1 .. Len(data.cpu_data) : cpu_data[j].tag = "All"]

\* First step of convert_cpu_data_points: with a latest entry, rebuild the
\* list when its length is not the core count plus one, else clear every
\* series and refresh last_entry; without one, nothing.  unreachable tells
\* that an unreachable!() arm was taken.
reconcile(cpu_data, current_data) ==
    IF current_data.timed_data_vec = <<>>
    THEN [cpu_data |-> cpu_data, unreachable |-> FALSE]
    ELSE LET data == current_data.timed_data_vec[Len(current_data.timed_data_vec)][2]
         IN  IF Len(data.cpu_data) + 1 # Len(cpu_data)
             THEN [cpu_data |-> rebuilt_cpu_data(data, current_data.cpu_harvest),
                   unreachable |-> FALSE]
             ELSE [cpu_data |->
                      [j \in 1 .. Len(cpu_data) |->
                          IF j = 1 \/ cpu_data[j].tag = "All"
                          THEN cpu_data[j]
                          ELSE Entry(cpu_data[j].data_type, <<>>,
                                     data.cpu_data[j - 1])],
                   unreachable |->
                      \E j \in 2 .. Len(cpu_data) : cpu_data[j].tag = "All"]

\* The inner loop of the re-walk for core itx (counted from 0); the break
\* follows the `if let Some(val)`.
RECURSIVE cpu_data_loop(_, _, _, _, _)
cpu_data_loop(timed_data_vec, i, current_time, itx, data) ==
    IF i > Len(timed_data_vec) THEN data
    ELSE LET time == timed_data_vec[i][1]
             timed_data == timed_data_vec[i][2]
             time_start == as_millis(duration_since(current_time, time))
             pushed == IF itx < Len(timed_data.cpu_data)
                       THEN Append(data, <<0 - time_start,
                                           timed_data.cpu_data[itx + 1]>>)
                       ELSE data
         IN  IF time = current_time
             THEN pushed
             ELSE cpu_data_loop(timed_data_vec, i + 1, current_time, itx, pushed)

\* Second step of convert_cpu_data_points: every element after the first
\* gets the points of its core appended.
rewalk(cpu_data, current_data) ==
    [cpu_data |->
        [j \in 1 .. Len(cpu_data) |->
            IF j = 1 \/ cpu_data[j].tag = "All"
            THEN cpu_data[j]
            ELSE [cpu_data[j] EXCEPT
                    !.data = cpu_data_loop(current_data.timed_data_vec, 1,
                                           current_time_of(current_data),
                                           j - 2, @)]],
     unreachable |-> \E j \in 2 .. Len(cpu_data) : cpu_data[j].tag = "All"]

\* convert_cpu_data_points on the persistent list: the list after the first
\* step, the list after the call, and whether unreachable!() was executed.
convert_cpu_data_points(cpu_data, current_data) ==
    LET first  == reconcile(cpu_data, current_data)
        second == rewalk(first.cpu_data, current_data)
    IN  [reconciled |-> first.cpu_data,
         cpu_data |-> second.cpu_data,
         unreachable |-> first.unreachable \/ second.unreachable]

\* ------------------------------------------------------- byte-count strings
\* A String is the sequence of its characters.  The f64 quotient
\* value / divisor is kept as the exact fraction [num, den]; the values of the
\* model lie below 2^31 and none falls on a decimal tie its f64 would break
\* the other way.

\* utils::gen_util limits
KIBI_LIMIT == 1024
MEBI_LIMIT == 1024 * 1024
GIBI_LIMIT == 1024 * 1024 * 1024
KILO_LIMIT == 1000
MEGA_LIMIT == 1000 * 1000
GIGA_LIMIT == 1000 * 1000 * 1000

\* utils::gen_util::get_binary_bytes for values below the TiB limit
get_binary_bytes(bytes) ==
    IF bytes < KIBI_LIMIT THEN [num |-> bytes, den |-> 1, unit |-> <<"B">>]
    ELSE IF bytes < MEBI_LIMIT
    THEN [num |-> bytes, den |-> KIBI_LIMIT, unit |-> <<"K", "i", "B">>]
    ELSE IF bytes < GIBI_LIMIT
    THEN [num |-> bytes, den |-> MEBI_LIMIT, unit |-> <<"M", "i", "B">>]
    ELSE [num |-> bytes, den |-> GIBI_LIMIT, unit |-> <<"G", "i", "B">>]

\* utils::gen_util::get_decimal_bytes for values below the TB limit
get_decimal_bytes(bytes) ==
    IF bytes < KILO_LIMIT THEN [num |-> bytes, den |-> 1, unit |-> <<"B">>]
    ELSE IF bytes < MEGA_LIMIT
    THEN [num |-> bytes, den |-> KILO_LIMIT, unit |-> <<"K", "B">>]
    ELSE IF bytes < GIGA_LIMIT
    THEN [num |-> bytes, den |-> MEGA_LIMIT, unit |-> <<"M", "B">>]
    ELSE [num |-> bytes, den |-> GIGA_LIMIT, unit |-> <<"G", "B">>]

\* A fraction as whole part q and rest r / den, r < den; doubling and adding
\* keep every intermediate below 2^31.
doubled(p, den) ==
    IF 2 * p.r >= den THEN [q |-> 2 * p.q + 1, r |-> 2 * p.r - den]
    ELSE [q |-> 2 * p.q, r |-> 2 * p.r]

added(a, b, den) ==
    IF a.r + b.r >= den THEN [q |-> a.q + b.q + 1, r |-> a.r + b.r - den]
    ELSE [q |-> a.q + b.q, r |-> a.r + b.r]

times_ten(p, den) ==
    added(doubled(doubled(doubled(p, den), den), den), doubled(p, den), den)

RECURSIVE shifted(_, _, _)
shifted(p, den, precision) ==
    IF precision = 0 THEN p
    ELSE shifted(times_ten(p, den), den, precision - 1)

\* The decimal digits of n
RECURSIVE digits(_)
digits(n) ==
    LET digit == <<"0", "1", "2", "3", "4", "5", "6", "7", "8", "9">>[(n % 10) + 1]
    IN  IF n < 10 THEN <<digit>> ELSE digits(n \div 10) \o <<digit>>

\* The last `precision` digits of n, zero padded
RECURSIVE decimals(_, _)
decimals(n, precision) ==
    IF precision = 0 THEN <<>>
    ELSE decimals(n \div 10, precision - 1) \o digits(n % 10)

\* format!("{:.*}", precision, num / den): the nearest decimal with
\* `precision` places, ties to even.
format_precision(precision, num, den) ==
    LET p       == shifted([q |-> num \div den, r |-> num % den], den, precision)
        up      == 2 * p.r > den \/ (2 * p.r = den /\ (p.q % 2) = 1)
        rounded == IF up THEN p.q + 1 ELSE p.q
    IN  digits(rounded \div (10 ^ precision))
            \o (IF precision > 0
                THEN <<".">> \o decimals(rounded, precision)
                ELSE <<>>)

\* binary_byte_string whose test is `value > GIBI_LIMIT`
binary_byte_string_strict(value) ==
    LET converted_values == get_binary_bytes(value)
    IN  IF value > GIBI_LIMIT
        THEN format_precision(1, converted_values.num, converted_values.den)
                 \o converted_values.unit
        ELSE format_precision(0, converted_values.num, converted_values.den)
                 \o converted_values.unit

binary_byte_string(value) ==
    LET converted_values == get_binary_bytes(value)
    IN  IF value >= GIBI_LIMIT
        THEN format_precision(1, converted_values.num, converted_values.den)
                 \o converted_values.unit
        ELSE format_precision(0, converted_values.num, converted_values.den)
                 \o converted_values.unit

dec_bytes_per_second_string(value) ==
    LET converted_values == get_decimal_bytes(value)
    IN  IF value >= GIGA_LIMIT
        THEN format_precision(1, converted_values.num, converted_values.den)
                 \o converted_values.unit \o <<"/", "s">>
        ELSE format_precision(0, converted_values.num, converted_values.den)
                 \o converted_values.unit \o <<"/", "s">>

\* ------------------------------------------------------------------ inputs
Modifiers == {NONE, SHIFT, {"CONTROL"}, {"SHIFT", "CONTROL"}}
KeyCodes == {Char("-"), Char("+"), Char("="), Char("a"), OtherKey("Enter")}
MouseKinds == {"ScrollDown", "ScrollUp", "Moved"}
Heights == {TIME_LABEL_HEIGHT_LIMIT - 1, TIME_LABEL_HEIGHT_LIMIT}

NoAxis == [bounds |-> <<>>, labels |-> <<>>]
NoCall == [called |-> "none", result |-> "None"]

Timers ==
    {AlwaysShow, AlwaysHide}
        \cup {Enabled(s, d) : s \in {Hidden, Running(0)}, d \in 0 .. MaxShowDuration}

\* The histories the projections are given.  Timestamps increase strictly;
\* the entry of instant t reads memory 10 (t + 1), swap 10 (t + 1) + 5,
\* receives 8 * 2^t and sends 1024 * 2^t bits, and core i is 10 t + i busy,
\* so that a point tells the entry it comes from.
Instants == 0 .. MaxInstant

TimedData(time, mem, swap, cores) ==
    [mem_data  |-> IF mem THEN <<10 * (time + 1)>> ELSE <<>>,
     swap_data |-> IF swap THEN <<10 * (time + 1) + 5>> ELSE <<>>,
     rx_data   |-> 8 * 2 ^ time,
     tx_data   |-> 1024 * 2 ^ time,
     cpu_data  |-> [i \in 1 .. cores |-> 10 * time + i]]

\* cpu_harvest of a collector that last saw this many cores
CpuHarvest(cores) == [i \in 1 .. cores |-> [data_type |-> i]]

DataCollection(current_instant, frozen_instant, timed_data_vec, cpu_harvest) ==
    [current_instant |-> current_instant, frozen_instant |-> frozen_instant,
     timed_data_vec |-> timed_data_vec, cpu_harvest |-> cpu_harvest]

\* DataCollection::default(), at the clock's origin
NoData == DataCollection(0, <<>>, <<>>, <<>>)

\* The instants of a history, oldest first
RECURSIVE Ascending(_)
Ascending(times) ==
    IF times = {} THEN <<>>
    ELSE LET first == CHOOSE t \in times : \A u \in times : t <= u
         IN  <<first>> \o Ascending(times \ {first})

TimeSeqs ==
    {Ascending(times) :
        times \in {ts \in SUBSET Instants : Cardinality(ts) <= MaxEntries}}

\* current_instant is the instant of the newest entry; a frozen instant is
\* any instant up to it (its entry may have been pruned since).
Snapshots(timed_data_vec, cpu_harvest) ==
    LET current_instant ==
            IF timed_data_vec = <<>> THEN 0
            ELSE timed_data_vec[Len(timed_data_vec)][1]
    IN  {DataCollection(current_instant, frozen_instant, timed_data_vec,
                        cpu_harvest) :
            frozen_instant \in {<<>>} \cup {<<t>> : t \in 0 .. current_instant}}

\* Histories in which an entry may lack its memory and swap readings (a
\* harvest that failed reads neither).
PointCollections ==
    UNION {Snapshots([i \in 1 .. Len(times) |->
                         <<times[i], TimedData(times[i], read[i], read[i], 0)>>],
                     <<>>) :
              <<times, read>> \in
                  UNION {{<<ts, rd>> : rd \in [1 .. Len(ts) -> BOOLEAN]} :
                            ts \in TimeSeqs}}

\* Histories of consecutive ticks in which each entry has its own number of
\* cores; the oldest entry is dropped (pruned) in some.  cpu_harvest has one
\* item per core of the newest harvest that read the CPU.
CpuCollections ==
    UNION {UNION {Snapshots(SubSeq(vec, first, Len(vec)), cpu_harvest) :
                     first \in {1, IF Len(vec) > 1 THEN 2 ELSE 1},
                     cpu_harvest \in
                         IF Len(vec) > 0 /\ Len(vec[Len(vec)][2].cpu_data) > 0
                         THEN {CpuHarvest(Len(vec[Len(vec)][2].cpu_data))}
                         ELSE {CpuHarvest(0), CpuHarvest(MaxCores)}} :
              vec \in UNION {{[i \in 1 .. n |->
                                  <<i - 1, TimedData(i - 1, TRUE, TRUE, cores[i])>>] :
                                 cores \in [1 .. n -> 0 .. MaxCores]} :
                             n \in 0 .. MaxCpuEntries}}

AxisScalings == {"Log", "Linear"}
DataUnits == {"Byte", "Bit"}

NotConverted == [op |-> "none"]
NotFormatted == [fn |-> "none"]

\* The data side before any conversion
DataIdle ==
    /\ data_collection = NoData
    /\ converted_cpu_data = <<>>
    /\ converted = NotConverted
    /\ formatted = NotFormatted

\* -------------------------------------------------------------------- Init
InitWith(tg, t) ==
    /\ time_graph = tg
    /\ now = t
    /\ event = [op |-> "new"]
    /\ called = "none"
    /\ result = "None"
    /\ showing = <<>>
    /\ x_axis = NoAxis
    /\ last_start = -1
    /\ prev = NoCall

\* new() with any arguments; the timer is AlwaysShow or an Enabled one that
\* hides at once.
Init ==
    \E start_value \in TimeValues, min_duration \in TimeValues,
       max_duration \in TimeValues, time_interval \in IntervalValues,
       autohide_timer \in {AlwaysShow, Enabled(Hidden, 0)} :
        /\ InitWith(new(start_value, autohide_timer, min_duration, max_duration,
                        time_interval), MaxTime - 1)
        /\ DataIdle

\* new() with a start value inside [min_duration, max_duration] and a
\* positive interval.
InitValid ==
    \E start_value \in TimeValues, min_duration \in TimeValues,
       max_duration \in TimeValues, time_interval \in IntervalValues,
       autohide_timer \in {AlwaysShow, Enabled(Hidden, 0)} :
        /\ min_duration <= start_value
        /\ start_value <= max_duration
        /\ time_interval > 0
        /\ InitWith(new(start_value, autohide_timer, min_duration, max_duration,
                        time_interval), MaxTime - 1)
        /\ DataIdle

\* One window, every timer, the clock at its origin.
InitTimer ==
    \E autohide_timer \in Timers :
        /\ InitWith(new(2 * Quarter, autohide_timer, Quarter, 3 * Quarter, Quarter), 0)
        /\ DataIdle

\* ----------------------------------------------------------------- actions
\* The handlers of the time graph leave the converted data alone.
DataUnchanged ==
    UNCHANGED <<data_collection, converted_cpu_data, converted, formatted>>

\* A panic ends the process.
Alive == result # "Panic"

\* The build profiles that tell apart in a call of fn: only zoom_out has
\* arithmetic that can overflow.
Profiles(fn) == IF fn = "zoom_out" THEN BOOLEAN ELSE {FALSE}

Apply(ev, fn, out) ==
    /\ time_graph' = out.self
    /\ event' = ev
    /\ called' = fn
    /\ result' = out.result
    /\ last_start' = IF out.armed /\ time_graph.autohide_timer.variant = "Enabled"
                     THEN now ELSE last_start
    /\ prev' = [called |-> called, result |-> result]
    /\ showing' = <<>>
    /\ x_axis' = NoAxis
    /\ UNCHANGED now
    /\ DataUnchanged

HandleKeyEvent ==
    /\ Alive
    /\ \E modifiers \in Modifiers, code \in KeyCodes :
        LET fn == handle_key_event(modifiers, code)
        IN  \E overflow_checks \in Profiles(fn) :
                Apply([op |-> "key", modifiers |-> modifiers, code |-> code], fn,
                      Dispatch(fn, time_graph, now, overflow_checks))

HandleMouseEvent ==
    /\ Alive
    /\ \E kind \in MouseKinds :
        LET fn == handle_mouse_event(kind)
        IN  \E overflow_checks \in Profiles(fn) :
                Apply([op |-> "mouse", kind |-> kind], fn,
                      Dispatch(fn, time_graph, now, overflow_checks))

UpdateDisplayTimer ==
    /\ Alive
    /\ time_graph' = [time_graph EXCEPT
                        !.autohide_timer = update_display_timer(@, now)]
    /\ event' = [op |-> "update_display_timer"]
    /\ called' = "none"
    /\ result' = "None"
    /\ showing' = <<>>
    /\ x_axis' = NoAxis
    /\ prev' = [called |-> called, result |-> result]
    /\ UNCHANGED <<now, last_start>>
    /\ DataUnchanged

IsShowing ==
    /\ Alive
    /\ LET shown == is_showing(time_graph.autohide_timer, now)
       IN  /\ time_graph' = [time_graph EXCEPT !.autohide_timer = shown.timer]
           /\ showing' = <<shown.value>>
    /\ event' = [op |-> "is_showing"]
    /\ called' = "none"
    /\ result' = "None"
    /\ x_axis' = NoAxis
    /\ prev' = [called |-> called, result |-> result]
    /\ UNCHANGED <<now, last_start>>
    /\ DataUnchanged

Draw ==
    /\ Alive
    /\ \E height \in Heights :
        LET drawn == draw_tui_chart(time_graph, now, height)
        IN  /\ time_graph' = [time_graph EXCEPT !.autohide_timer = drawn.timer]
            /\ showing' = drawn.showing
            /\ x_axis' = [bounds |-> drawn.bounds, labels |-> drawn.labels]
            /\ event' = [op |-> "draw", height |-> height]
    /\ called' = "none"
    /\ result' = "None"
    /\ prev' = [called |-> called, result |-> result]
    /\ UNCHANGED <<now, last_start>>
    /\ DataUnchanged

\* The clock advances between calls.
Tick ==
    /\ Alive
    /\ now < MaxTime
    /\ now' = now + 1
    /\ event' = [op |-> "tick"]
    /\ called' = "none"
    /\ result' = "None"
    /\ showing' = <<>>
    /\ x_axis' = NoAxis
    /\ prev' = [called |-> called, result |-> result]
    /\ UNCHANGED <<time_graph, last_start>>
    /\ DataUnchanged

Next ==
    \/ HandleKeyEvent
    \/ HandleMouseEvent
    \/ UpdateDisplayTimer
    \/ IsShowing
    \/ Draw
    \/ Tick

Spec == Init /\ [][Next]_vars
SpecValid == InitValid /\ [][Next]_vars
SpecTimer == InitTimer /\ [][Next]_vars

\* ------------------------------------------------- data_conversion actions
\* The time graph while the projections run
TimeGraphIdle ==
    UNCHANGED <<time_graph, now, event, called, result, showing, x_axis,
                last_start, prev>>

\* A history, then the stateless projections of it.
InitPoints ==
    /\ InitWith(new(2 * Quarter, AlwaysShow, Quarter, 3 * Quarter, Quarter), 0)
    /\ data_collection \in PointCollections
    /\ converted_cpu_data = <<>>
    /\ converted = NotConverted
    /\ formatted = NotFormatted

ConvertMemDataPoints ==
    /\ converted' = [op |-> "mem",
                     points |-> convert_mem_data_points(data_collection)]
    /\ UNCHANGED <<data_collection, converted_cpu_data, formatted>>
    /\ TimeGraphIdle

ConvertSwapDataPoints ==
    /\ converted' = [op |-> "swap",
                     points |-> convert_swap_data_points(data_collection)]
    /\ UNCHANGED <<data_collection, converted_cpu_data, formatted>>
    /\ TimeGraphIdle

GetRxTxDataPoints ==
    /\ \E network_scale_type \in AxisScalings, network_unit_type \in DataUnits,
          network_use_binary_prefix \in BOOLEAN :
        LET got == get_rx_tx_data_points(data_collection, network_scale_type,
                                         network_unit_type,
                                         network_use_binary_prefix)
        IN  converted' = [op |-> "net",
                          network_scale_type |-> network_scale_type,
                          network_unit_type |-> network_unit_type,
                          network_use_binary_prefix |-> network_use_binary_prefix,
                          rx |-> got.rx, tx |-> got.tx]
    /\ UNCHANGED <<data_collection, converted_cpu_data, formatted>>
    /\ TimeGraphIdle

NextPoints ==
    \/ ConvertMemDataPoints
    \/ ConvertSwapDataPoints
    \/ GetRxTxDataPoints

SpecPoints == InitPoints /\ [][NextPoints]_vars

\* ConvertedData::default(), then passes of convert_cpu_data_points, each
\* over a history of its own.
InitCpu ==
    /\ InitWith(new(2 * Quarter, AlwaysShow, Quarter, 3 * Quarter, Quarter), 0)
    /\ data_collection = NoData
    /\ converted_cpu_data = <<>>
    /\ converted = NotConverted
    /\ formatted = NotFormatted

\* An unreachable!() that is executed panics.
Converting == converted.op = "cpu" => ~converted.unreachable

ConvertCpuDataPoints ==
    /\ Converting
    /\ \E data \in CpuCollections :
        LET pass == convert_cpu_data_points(converted_cpu_data, data)
        IN  /\ data_collection' = data
            /\ converted_cpu_data' = pass.cpu_data
            /\ converted' = [op |-> "cpu", was |-> Len(converted_cpu_data),
                             reconciled |-> pass.reconciled,
                             unreachable |-> pass.unreachable]
    /\ UNCHANGED formatted
    /\ TimeGraphIdle

NextCpu == ConvertCpuDataPoints

SpecCpu == InitCpu /\ [][NextCpu]_vars

\* The u64 values the string functions are called with: the values of the
\* tests and those around every limit.
ByteValues ==
    {0, 1, 900, 1500, 1536, 2500, 2560, GIBI_LIMIT + GIBI_LIMIT \div 2,
     2 * GIGA_LIMIT}
        \cup {limit + d : limit \in {KILO_LIMIT, KIBI_LIMIT, MEGA_LIMIT,
                                     MEBI_LIMIT, GIGA_LIMIT, GIBI_LIMIT},
                          d \in -MaxOffset .. MaxOffset}

\* No string yet, then calls of the two string functions.
InitFormat ==
    /\ InitWith(new(2 * Quarter, AlwaysShow, Quarter, 3 * Quarter, Quarter), 0)
    /\ DataIdle

BinaryByteString ==
    /\ \E value \in ByteValues :
        formatted' = [fn |-> "binary_byte_string", value |-> value,
                      string |-> binary_byte_string(value)]
    /\ UNCHANGED <<data_collection, converted_cpu_data, converted>>
    /\ TimeGraphIdle

DecBytesPerSecondString ==
    /\ \E value \in ByteValues :
        formatted' = [fn |-> "dec_bytes_per_second_string", value |-> value,
                      string |-> dec_bytes_per_second_string(value)]
    /\ UNCHANGED <<data_collection, converted_cpu_data, converted>>
    /\ TimeGraphIdle

NextFormat ==
    \/ BinaryByteString
    \/ DecBytesPerSecondString

SpecFormat == InitFormat /\ [][NextFormat]_vars

\* ------------------------------------------------------------------ claims

\* C1: min_duration <= current_display_time <= max_duration in every state
\* reachable by zoom_in, zoom_out and reset_zoom calls, the initial state
\* included.
C1Claim ==
    /\ time_graph.min_duration <= time_graph.current_display_time
    /\ time_graph.current_display_time <= time_graph.max_duration

\* C2: zoom_in takes candidate = current - step saturating at zero; candidate =
\* current gives NoRedraw; else candidate >= min commits it, arms the timer and
\* gives Redraw; else min # current clamps to min, arms the timer and gives
\* Redraw; else (current = min) NoRedraw and nothing changes.
C2Claim ==
    [][called' = "zoom_in" =>
        LET cur       == time_graph.current_display_time
            step      == time_graph.time_interval
            min       == time_graph.min_duration
            timer     == time_graph.autohide_timer
            candidate == IF cur >= step THEN cur - step ELSE 0
            armed     == IF timer.variant = "Enabled"
                         THEN [timer EXCEPT !.state = Running(now)]
                         ELSE timer
            same      == result' = "NoRedraw" /\ time_graph' = time_graph
            moved(to) == /\ result' = "Redraw"
                         /\ time_graph' = [time_graph EXCEPT
                                             !.current_display_time = to,
                                             !.autohide_timer = armed]
        IN  IF candidate = cur THEN same
            ELSE IF candidate >= min THEN moved(candidate)
            ELSE IF min # cur THEN moved(min)
            ELSE same]_vars

\* C3: zoom_out takes candidate = current + step; candidate = current gives
\* NoRedraw; else candidate <= max commits it with Redraw; else max # current
\* clamps to max with Redraw; else (current = max) NoRedraw and no change.
C3Claim ==
    [][called' = "zoom_out" =>
        LET cur       == time_graph.current_display_time
            step      == time_graph.time_interval
            max       == time_graph.max_duration
            candidate == cur + step
            same      == result' = "NoRedraw" /\ time_graph' = time_graph
            moved(to) == /\ result' = "Redraw"
                         /\ time_graph'.current_display_time = to
        IN  IF candidate = cur THEN same
            ELSE IF candidate <= max THEN moved(candidate)
            ELSE IF max # cur THEN moved(max)
            ELSE same]_vars

\* C4: once a zoom_in call has left current_display_time at min_duration every
\* further zoom_in call returns NoRedraw, and once a zoom_out call has left it
\* at max_duration every further zoom_out call returns NoRedraw.
C4Claim ==
    [][/\ (/\ called = "zoom_in"
           /\ time_graph.current_display_time = time_graph.min_duration
           /\ called' = "zoom_in")
          => result' = "NoRedraw"
       /\ (/\ called = "zoom_out"
           /\ time_graph.current_display_time = time_graph.max_duration
           /\ called' = "zoom_out")
          => result' = "NoRedraw"]_vars

\* C5: reset_zoom called where current # default returns Redraw and leaves
\* current = default; a reset_zoom call right after it returns NoRedraw and
\* leaves current unchanged.
C5Thm ==
    [][/\ (/\ called' = "reset_zoom"
           /\ time_graph.current_display_time # time_graph.default_time_value)
          => /\ result' = "Redraw"
             /\ time_graph'.current_display_time = time_graph.default_time_value
       /\ (/\ called = "reset_zoom"
           /\ result = "Redraw"
           /\ called' = "reset_zoom")
          => /\ result' = "NoRedraw"
             /\ time_graph'.current_display_time = time_graph.current_display_time
             /\ time_graph'.current_display_time = time_graph'.default_time_value]_vars

C5Witness ==
    /\ prev = [called |-> "reset_zoom", result |-> "Redraw"]
    /\ called = "reset_zoom"
    /\ result = "NoRedraw"
    /\ time_graph.current_display_time = time_graph.default_time_value

\* C6: a key or mouse event whose result is NoRedraw or Unhandled leaves the
\* whole TimeGraph unchanged: current_display_time, the timer and its state,
\* default, min, max and interval.
C6Thm ==
    [][result' \in {"NoRedraw", "Unhandled"} => time_graph' = time_graph]_vars

C6Witness ==
    /\ result = "NoRedraw"
    /\ called = "zoom_in"
    /\ time_graph.autohide_timer.variant = "Enabled"
    /\ time_graph.autohide_timer.state = Hidden

\* C7: for an Enabled timer, is_showing returns true at the instant of the
\* last start_display_timer call and false whenever more than show_duration
\* has passed since that call.
C7Thm ==
    (/\ showing # <<>>
     /\ time_graph.autohide_timer.variant = "Enabled"
     /\ last_start >= 0)
    => /\ (now = last_start => showing = <<TRUE>>)
       /\ (now - last_start > time_graph.autohide_timer.show_duration
             => showing = <<FALSE>>)

C7Witness ==
    /\ showing = <<FALSE>>
    /\ time_graph.autohide_timer.variant = "Enabled"
    /\ last_start >= 0
    /\ now - last_start > time_graph.autohide_timer.show_duration

\* C8: an AlwaysShow or AlwaysHide timer is never changed by any call, and
\* is_showing returns true for AlwaysShow and false for AlwaysHide.
C8Thm ==
    [][time_graph.autohide_timer.variant \in {"AlwaysShow", "AlwaysHide"} =>
        /\ time_graph'.autohide_timer = time_graph.autohide_timer
        /\ showing' # <<>> =>
             showing' = <<time_graph.autohide_timer.variant = "AlwaysShow">>]_vars

C8Witness ==
    /\ time_graph.autohide_timer = AlwaysHide
    /\ prev.result = "Redraw"
    /\ showing = <<FALSE>>

\* C9: a key event with character '-', '+' or '=' and no modifier or Shift only
\* is dispatched to zoom_out, zoom_in and reset_zoom; every other key event is
\* Unhandled; scroll-down is dispatched to zoom_out, scroll-up to zoom_in and
\* every other mouse event is Unhandled.
C9Thm ==
    LET expected ==
            IF event.op = "key"
            THEN IF /\ event.modifiers \in {{}, {"SHIFT"}}
                    /\ event.code.key = "Char"
                    /\ event.code.c \in {"-", "+", "="}
                 THEN CASE event.code.c = "-" -> "zoom_out"
                        [] event.code.c = "+" -> "zoom_in"
                        [] event.code.c = "=" -> "reset_zoom"
                 ELSE "none"
            ELSE IF event.kind = "ScrollDown" THEN "zoom_out"
            ELSE IF event.kind = "ScrollUp" THEN "zoom_in"
            ELSE "none"
    IN  event.op \in {"key", "mouse"} =>
            /\ called = expected
            /\ (expected = "none") <=> (result = "Unhandled")

C9Witness ==
    /\ event.op = "key"
    /\ event.modifiers = {"SHIFT"}
    /\ event.code = Char("+")
    /\ called = "zoom_in"
    /\ result = "Redraw"

\* C10: a draw gives the x axis the bounds [-current_display_time, 0], and the
\* labels ["<current_display_time / 1000>s", "0s"] exactly when the inner height
\* is at least TIME_LABEL_HEIGHT_LIMIT and the timer is showing at that draw;
\* otherwise it gives no labels.
C10Thm ==
    event.op = "draw" =>
        LET timer == time_graph.autohide_timer
            is_shown ==
                \/ timer.variant = "AlwaysShow"
                \/ /\ timer.variant = "Enabled"
                   /\ timer.state.tag = "Running"
                   /\ now - timer.state.instant <= timer.show_duration
        IN  /\ x_axis.bounds = <<0 - time_graph.current_display_time, 0>>
            /\ x_axis.labels =
                 IF event.height >= TIME_LABEL_HEIGHT_LIMIT /\ is_shown
                 THEN <<ToString(time_graph.current_display_time \div 1000) \o "s",
                        "0s">>
                 ELSE <<>>

C10Witness ==
    /\ event.op = "draw"
    /\ time_graph.autohide_timer.variant = "Enabled"
    /\ time_graph.current_display_time >= 1000
    /\ x_axis.labels # <<>>

\* C11: every projected series (memory, swap, network rx and tx) stops at the
\* entry whose timestamp equals the active now reference (frozen_instant when
\* set, else current_instant): no point of the output derives from an entry
\* after it, whether or not that entry carries a reading for the metric.
C11Claim ==
    LET vec          == data_collection.timed_data_vec
        current_time == current_time_of(data_collection)
        at_now       == {i \in 1 .. Len(vec) : vec[i][1] = current_time}
        stop         == IF at_now = {} THEN Len(vec)
                        ELSE CHOOSE i \in at_now : \A j \in at_now : i <= j
        walked       == 1 .. stop
    IN  /\ converted.op = "mem" =>
              \A k \in 1 .. Len(converted.points) :
                  \E i \in walked : vec[i][2].mem_data = <<converted.points[k][2]>>
        /\ converted.op = "swap" =>
              \A k \in 1 .. Len(converted.points) :
                  \E i \in walked : vec[i][2].swap_data = <<converted.points[k][2]>>
        /\ converted.op = "net" =>
              /\ \A k \in 1 .. Len(converted.rx) :
                    \E i \in walked : vec[i][2].rx_data = converted.rx[k][2].x
              /\ \A k \in 1 .. Len(converted.tx) :
                    \E i \in walked : vec[i][2].tx_data = converted.tx[k][2].x

\* C12: for a history with strictly increasing timestamps whose newest entry
\* is stamped with the now reference (and for the empty history),
\* convert_mem_data_points returns exactly one point
\* (-(whole milliseconds from the entry to now), value) for each entry that
\* carries a memory reading, in the order of the buffer, and no other point.
C12Thm ==
    LET vec          == data_collection.timed_data_vec
        current_time == current_time_of(data_collection)
        carrying     == {i \in 1 .. Len(vec) : vec[i][2].mem_data # <<>>}
        nth(k)       == CHOOSE i \in carrying :
                            Cardinality({j \in carrying : j < i}) = k - 1
        expected     == [k \in 1 .. Cardinality(carrying) |->
                            <<0 - ((current_time - vec[nth(k)][1]) \div TicksPerMilli),
                              vec[nth(k)][2].mem_data[1]>>]
    IN  (/\ converted.op = "mem"
         /\ \A i \in 1 .. Len(vec) - 1 : vec[i][1] < vec[i + 1][1]
         /\ vec # <<>> => vec[Len(vec)][1] = current_time)
        => converted.points = expected

C12Witness ==
    /\ converted.op = "mem"
    /\ Len(data_collection.timed_data_vec) = 3
    /\ data_collection.timed_data_vec[3][1] = current_time_of(data_collection)
    /\ Len(converted.points) = 3
    /\ converted.points[1][1] = -2
    /\ converted.points[2][1] = -1
    /\ converted.points[3][1] = 0

\* C13: in a pass of convert_cpu_data_points over a history whose latest
\* entry has a core count other than the one the persistent list was built
\* for (its length minus one), the list after the first step has length
\* core count + 1 and every per-core series of it is empty, before the
\* re-walk fills them.
C13Thm ==
    [][LET vec   == data_collection'.timed_data_vec
           cores == Len(vec[Len(vec)][2].cpu_data)
       IN  (/\ converted'.op = "cpu"
            /\ vec # <<>>
            /\ cores + 1 # Len(converted_cpu_data))
           => /\ Len(converted'.reconciled) = cores + 1
              /\ \A j \in 2 .. Len(converted'.reconciled) :
                    converted'.reconciled[j].data = <<>>]_vars

C13Witness ==
    /\ converted.op = "cpu"
    /\ converted.was = 2
    /\ Len(converted.reconciled) = 3
    /\ \A j \in 2 .. 3 : converted.reconciled[j].data = <<>>
    /\ \A j \in 2 .. 3 : Len(converted_cpu_data[j].data) > 1

\* C14: after every pass of convert_cpu_data_points, whatever preceded it (a
\* pass over an empty history after a non-empty one included), the buffered
\* series of each core is the projection of the current history for that
\* core (one point per entry that has the core, up to the entry at the now
\* reference), with nothing carried over from an earlier pass; and a second
\* pass over the same snapshot leaves the list as the first left it.
C14Claim ==
    /\ [](converted.op = "cpu" =>
            LET vec          == data_collection.timed_data_vec
                current_time == current_time_of(data_collection)
                at_now       == {i \in 1 .. Len(vec) : vec[i][1] = current_time}
                stop         == IF at_now = {} THEN Len(vec)
                                ELSE CHOOSE i \in at_now : \A j \in at_now : i <= j
                carrying(core) == {i \in 1 .. stop : core <= Len(vec[i][2].cpu_data)}
                nth(core, k) == CHOOSE i \in carrying(core) :
                                    Cardinality({j \in carrying(core) : j < i}) = k - 1
                expected(core) ==
                    [k \in 1 .. Cardinality(carrying(core)) |->
                        <<0 - as_millis(duration_since(current_time,
                                                       vec[nth(core, k)][1])),
                          vec[nth(core, k)][2].cpu_data[core]>>]
            IN  \A j \in 2 .. Len(converted_cpu_data) :
                    converted_cpu_data[j].data = expected(j - 1))
    /\ [][(/\ converted.op = "cpu"
           /\ converted'.op = "cpu"
           /\ data_collection' = data_collection)
          => converted_cpu_data' = converted_cpu_data]_vars

\* C15: with unit Byte, the binary prefix and scale Log, every projected rx
\* and tx value is log2(raw) - 3, raw the rate of the entry the point comes
\* from: the constant subtracted is exactly 3.
C15Claim ==
    LET vec        == data_collection.timed_data_vec
        log2(x)    == CHOOSE e \in 0 .. 31 : 2 ^ e = x
        value(y)   == log2(y.x \div y.div) - y.minus
    IN  (/\ converted.op = "net"
         /\ converted.network_scale_type = "Log"
         /\ converted.network_unit_type = "Byte"
         /\ converted.network_use_binary_prefix)
        => /\ \A k \in 1 .. Len(converted.rx) :
                /\ converted.rx[k][2].fn = "log2"
                /\ value(converted.rx[k][2]) = log2(vec[k][2].rx_data) - 3
           /\ \A k \in 1 .. Len(converted.tx) :
                /\ converted.tx[k][2].fn = "log2"
                /\ value(converted.tx[k][2]) = log2(vec[k][2].tx_data) - 3

C17Thm ==
    [][/\ (/\ result' = "Redraw"
           /\ time_graph.autohide_timer.variant = "Enabled")
          => /\ called' \in {"zoom_in", "zoom_out", "reset_zoom"}
             /\ time_graph'.autohide_timer.state = Running(now)
       /\ (/\ result = "Redraw"
           /\ time_graph.autohide_timer.variant = "Enabled"
           /\ showing' # <<>>)
          => showing' = <<TRUE>>]_vars

C17Witness ==
    /\ event.op = "is_showing"
    /\ prev.result = "Redraw"
    /\ prev.called = "zoom_out"
    /\ showing = <<TRUE>>
    /\ time_graph.autohide_timer = Enabled(Running(now), 0)
    /\ now > 0

\* C18: in every state reachable from the empty default list by passes of
\* convert_cpu_data_points over any histories, the persistent CPU list is
\* empty or has All at index 0 and an Entry at every later index, so neither
\* unreachable!() arm is executed.
C18Thm ==
    /\ \/ converted_cpu_data = <<>>
       \/ /\ converted_cpu_data[1] = All
          /\ \A j \in 2 .. Len(converted_cpu_data) :
                converted_cpu_data[j].tag = "Entry"
    /\ converted.op = "cpu" => ~converted.unreachable

C18Witness ==
    /\ converted.op = "cpu"
    /\ ~converted.unreachable
    /\ converted.was = MaxCores + 1
    /\ Len(converted_cpu_data) = MaxCores + 1
    /\ converted_cpu_data[1] = All
    /\ \A j \in 2 .. Len(converted_cpu_data) :
          /\ converted_cpu_data[j].tag = "Entry"
          /\ converted_cpu_data[j].data # <<>>

====
